---- MODULE Spec2Model ----
(***************************************************************************)
(* Model of the weather dashboard component Home (src/app/page.tsx).       *)
(*                                                                         *)
(* State: the React state of the component, the browser's localStorage,    *)
(* the fetchWeather calls that are suspended at an await, and the position *)
(* of the mount sequence (first render, effects, re-render, effects).      *)
(*                                                                         *)
(* A place name is a number 1..NumPlaces; EmptyText is a search text whose *)
(* trim() is empty.  An optional value (a localStorage key that may be     *)
(* absent, a queued state update) is a sequence of length 0 or 1.          *)
(*                                                                         *)
(* A handler is one action: the state updates it makes, the re-render they *)
(* cause and the save effect of that re-render.  A fetchWeather call is    *)
(* one action per stretch between awaits.  The mount sequence is one       *)
(* action per effect and per render, since a reload can fall between them. *)
(* A response of the weather provider is a choice among success,           *)
(* non-success status and rejection (which stands for an unparsable body   *)
(* as well); a successful response carries the serial number of its call.  *)
(*                                                                         *)
(* Not modelled: the intro banner and its storage flag, the details panel, *)
(* the document class set by the theme effect, and rendering.              *)
(***************************************************************************)
EXTENDS Integers, Sequences, FiniteSets, TLC

\* Bounds of the model.
NumPlaces == 6
MaxFetches == 2

\* slice(0, 5), page.tsx:169
MaxRecent == 5
\* useState(""), page.tsx:60
EmptyText == 0

Places == 1..NumPlaces
UnitSystems == {"metric", "imperial"}
Themes == {"light", "dark"}

VARIABLES
  apiKey,           \* process.env.NEXT_PUBLIC_OPENWEATHER_API_KEY is set
  location,         \* text of the search box
  weather,          \* current conditions on display, or NoWeather
  forecast,         \* forecast on display, or NoForecast
  units,
  theme,
  loading,
  error,
  recentLocations,
  favorites,
  lastAction,
  storage,          \* localStorage
  pc,               \* position in the mount sequence
  queued,           \* state updates queued by the load effect, applied at the re-render
  fetches,          \* fetchWeather calls suspended at an await
  nextId,           \* serial number of the next fetchWeather call that reaches the network
  prevSession       \* what the previous session left in localStorage (kept until
                    \* the mount sequence has completed)

vars == <<apiKey, location, weather, forecast, units, theme, loading, error,
          recentLocations, favorites, lastAction, storage,
          pc, queued, fetches, nextId, prevSession>>

viewState == <<location, weather, forecast, loading, error>>
prefState == <<units, theme, recentLocations, favorites, lastAction>>

----------------------------------------------------------------------------
\* Helpers on JavaScript arrays.

Range(s) == {s[i] : i \in 1..Len(s)}

includes(s, x) == x \in Range(s)

NoDup(s) == \A i, j \in 1..Len(s) : i # j => s[i] # s[j]

\* s.slice(0, n)
slice0(s, n) == SubSeq(s, 1, IF Len(s) < n THEN Len(s) ELSE n)

\* s.filter((f) => f !== x)
filterOut(s, x) == SelectSeq(s, LAMBDA f : f # x)

\* Optional values.
None == <<>>
Some(x) == <<x>>

\* JSON.stringify of an array of strings, and JSON.parse of the result.
JSONstringify(list) == [json |-> "array", items |-> list]
JSONparse(text) == text.items

NoWeather == [name |-> EmptyText, id |-> 0]
NoForecast == [of |-> EmptyText, id |-> 0]
NoAction == [type |-> "none", value |-> "none"]
NoError == "null"
ServiceUnavailable == "Weather data is temporarily unavailable. Please check back later."
LocationNotFound == "Location not found. Please check the spelling and try again."
ForecastUnavailable == "Forecast data unavailable"
\* err.message of a rejected fetch() or json(), or "An unknown error occurred"
Rejected == "rejected"

NothingQueued == [units |-> None, theme |-> None, favorites |-> None,
                  recentLocations |-> None]

EmptyStorage == [weatherUnits |-> None, weatherTheme |-> None, weatherFavorites |-> None,
                 recentLocations |-> None]

\* The four setItem calls of the save effect, with the state of one render.
saved(store, u, t, f, r) ==
  [store EXCEPT !.weatherUnits = Some(u),
                !.weatherTheme = Some(t),
                !.weatherFavorites = Some(JSONstringify(f)),
                !.recentLocations = Some(JSONstringify(r))]

----------------------------------------------------------------------------
\* What a previous session can have left in localStorage: nothing (first
\* visit), or the four preference keys written together by its save effect.
\* Saved lists hold no duplicates and at most MaxRecent recent locations.

SavedRecents == {<<>>, <<2, 1>>, <<5, 4, 3, 2, 1>>}
SavedFavorites == {<<>>, <<1, NumPlaces>>}

\* The preferences a session holds: the four values its save effect writes.
SavedPreferences ==
  [units : UnitSystems, theme : Themes, favorites : SavedFavorites,
   recentLocations : SavedRecents]

Init ==
  /\ apiKey \in BOOLEAN
  /\ location = EmptyText
  /\ weather = NoWeather
  /\ forecast = NoForecast
  /\ units = "metric"
  /\ theme = "light"
  /\ loading = FALSE
  /\ error = NoError
  /\ recentLocations = <<>>
  /\ favorites = <<>>
  /\ lastAction = NoAction
  /\ prevSession \in {None} \cup {Some(p) : p \in SavedPreferences}
  /\ storage = IF prevSession = None THEN EmptyStorage
               ELSE LET p == prevSession[1]
                    IN saved(EmptyStorage, p.units, p.theme, p.favorites, p.recentLocations)
  /\ pc = "load"
  /\ queued = NothingQueued
  /\ fetches = {}
  /\ nextId = 1

----------------------------------------------------------------------------
\* Mount sequence.

\* Mutant of parseOr: the saved list is never parsed, the fallback "[]" always is.
parseOrFallbackOnly(item) == <<>>

\* localStorage.getItem(key) || "[]", parsed
parseOr(item) == IF item = None THEN <<>> ELSE JSONparse(item[1])

\* The load effect: reads localStorage and queues the state updates.
LoadPreferences ==
  /\ pc = "load"
  /\ queued' = [units |-> storage.weatherUnits,
                theme |-> storage.weatherTheme,
                favorites |-> Some(parseOr(storage.weatherFavorites)),
                recentLocations |-> Some(parseOr(storage.recentLocations))]
  /\ pc' = "save"
  /\ UNCHANGED <<apiKey, viewState, prefState, storage, fetches, nextId, prevSession>>

\* The save effect of the mount sequence: after the first render it runs with
\* the state of that render; after the re-render it runs again (the parsed
\* arrays are new objects, so its dependencies have changed).
SavePreferences ==
  /\ pc \in {"save", "save_again"}
  /\ storage' = saved(storage, units, theme, favorites, recentLocations)
  /\ pc' = IF pc = "save" THEN "render" ELSE "ready"
  /\ prevSession' = IF pc = "save" THEN prevSession ELSE None
  /\ UNCHANGED <<apiKey, viewState, prefState, queued, fetches, nextId>>

apply(update, current) == IF update = None THEN current ELSE update[1]

\* The re-render that applies the updates queued by the load effect.
Rerender ==
  /\ pc = "render"
  /\ units' = apply(queued.units, units)
  /\ theme' = apply(queued.theme, theme)
  /\ favorites' = apply(queued.favorites, favorites)
  /\ recentLocations' = apply(queued.recentLocations, recentLocations)
  /\ queued' = NothingQueued
  /\ pc' = "save_again"
  /\ UNCHANGED <<apiKey, viewState, lastAction, storage, fetches, nextId, prevSession>>

----------------------------------------------------------------------------
\* fetchWeather.

\* Mutant of fetchWeather: the credential is checked after setLoading(true).
fetchWeatherChecksKeyLate(searchLocation) ==
  IF ~apiKey
  THEN /\ loading' = TRUE
       /\ error' = ServiceUnavailable
       /\ UNCHANGED <<location, weather, forecast, fetches, nextId>>
  ELSE /\ nextId <= MaxFetches
       /\ loading' = TRUE
       /\ error' = NoError
       /\ fetches' = fetches \cup {[id |-> nextId, searchLocation |-> searchLocation,
                                    recentLocations |-> recentLocations,
                                    awaiting |-> "weather"]}
       /\ nextId' = nextId + 1
       /\ UNCHANGED <<location, weather, forecast>>

\* The synchronous part of fetchWeather(searchLocation), up to the first await.
\* The call keeps the recentLocations of the render whose handler started it.
fetchWeather(searchLocation) ==
  IF ~apiKey
  THEN /\ error' = ServiceUnavailable
       /\ UNCHANGED <<location, weather, forecast, loading, fetches, nextId>>
  ELSE /\ nextId <= MaxFetches
       /\ loading' = TRUE
       /\ error' = NoError
       /\ fetches' = fetches \cup {[id |-> nextId, searchLocation |-> searchLocation,
                                    recentLocations |-> recentLocations,
                                    awaiting |-> "weather"]}
       /\ nextId' = nextId + 1
       /\ UNCHANGED <<location, weather, forecast>>

\* Mutant of fetchFailed: the catch block also clears what is on display.
fetchFailedClearsDisplay(f, message) ==
  /\ error' = message
  /\ loading' = FALSE
  /\ weather' = NoWeather
  /\ forecast' = NoForecast
  /\ fetches' = fetches \ {f}
  /\ UNCHANGED <<location, nextId, prefState, storage>>

\* catch and finally of fetchWeather
fetchFailed(f, message) ==
  /\ error' = message
  /\ loading' = FALSE
  /\ fetches' = fetches \ {f}
  /\ UNCHANGED <<location, weather, forecast, nextId, prefState, storage>>

\* The first request settles: rejected, answered with a non-success status, or
\* answered with success (its body is kept in a local and the forecast is requested).
WeatherResponse(f, outcome) ==
  /\ f \in fetches
  /\ f.awaiting = "weather"
  /\ CASE outcome = "rejected" -> fetchFailed(f, Rejected)
       [] outcome = "not_ok" -> fetchFailed(f, LocationNotFound)
       [] outcome = "ok" ->
            /\ fetches' = (fetches \ {f}) \cup {[f EXCEPT !.awaiting = "forecast"]}
            /\ UNCHANGED <<viewState, nextId, prefState, storage>>
  /\ UNCHANGED <<apiKey, pc, queued, prevSession>>

\* Lines 164-171 and the save effect of the re-render they cause.
fetchSucceeded(f) ==
  /\ weather' = [name |-> f.searchLocation, id |-> f.id]
  /\ forecast' = [of |-> f.searchLocation, id |-> f.id]
  /\ recentLocations' =
       IF ~includes(f.recentLocations, f.searchLocation)
       THEN slice0(<<f.searchLocation>> \o f.recentLocations, MaxRecent)
       ELSE recentLocations
  /\ loading' = FALSE
  /\ fetches' = fetches \ {f}
  /\ storage' = saved(storage, units, theme, favorites, recentLocations')
  /\ UNCHANGED <<location, error, nextId, units, theme, favorites, lastAction>>

\* The second request settles.
ForecastResponse(f, outcome) ==
  /\ f \in fetches
  /\ f.awaiting = "forecast"
  /\ CASE outcome = "rejected" -> fetchFailed(f, Rejected)
       [] outcome = "not_ok" -> fetchFailed(f, ForecastUnavailable)
       [] outcome = "ok" -> fetchSucceeded(f)
  /\ UNCHANGED <<apiKey, pc, queued, prevSession>>

Outcomes == {"ok", "not_ok", "rejected"}

----------------------------------------------------------------------------
\* User interaction (after the mount sequence).

SetLocation(text) ==
  /\ pc = "ready"
  /\ location' = text
  /\ UNCHANGED <<apiKey, weather, forecast, loading, error, prefState, storage, pc,
                 queued, fetches, nextId, prevSession>>

\* The submit button is disabled while loading.
handleSearch ==
  /\ pc = "ready"
  /\ ~loading
  /\ IF location # EmptyText
     THEN fetchWeather(location)
     ELSE UNCHANGED <<viewState, fetches, nextId>>
  /\ UNCHANGED <<apiKey, prefState, storage, pc, queued, prevSession>>

ClickRecent(loc) ==
  /\ pc = "ready"
  /\ includes(recentLocations, loc)
  /\ fetchWeather(loc)
  /\ UNCHANGED <<apiKey, prefState, storage, pc, queued, prevSession>>

ClickFavorite(loc) ==
  /\ pc = "ready"
  /\ includes(favorites, loc)
  /\ fetchWeather(loc)
  /\ UNCHANGED <<apiKey, prefState, storage, pc, queued, prevSession>>

\* Mutant of toggled: the membership test is missing, the place is always appended.
toggledAlwaysAppends(favs, loc) == favs \o <<loc>>

toggled(favs, loc) ==
  IF includes(favs, loc) THEN filterOut(favs, loc) ELSE favs \o <<loc>>

\* The star of the current-conditions card.
toggleFavorite ==
  /\ pc = "ready"
  /\ weather # NoWeather
  /\ favorites' = toggled(favorites, weather.name)
  /\ storage' = saved(storage, units, theme, favorites', recentLocations)
  /\ UNCHANGED <<apiKey, viewState, units, theme, recentLocations, lastAction, pc, queued, fetches, nextId, prevSession>>

flipped(u) == IF u = "metric" THEN "imperial" ELSE "metric"

\* Mutant of recorded: the slot takes the new unit instead of the old one.
recordedNewUnit(oldUnit) == [type |-> "units", value |-> flipped(oldUnit)]

recorded(oldUnit) == [type |-> "units", value |-> oldUnit]

toggleUnits ==
  /\ pc = "ready"
  /\ units' = flipped(units)
  /\ lastAction' = recorded(units)
  /\ storage' = saved(storage, units', theme, favorites, recentLocations)
  /\ UNCHANGED <<apiKey, viewState, theme, recentLocations, favorites, pc, queued, fetches, nextId, prevSession>>

\* The undo control is rendered only while lastAction is set (line 297).
UndoAvailable == lastAction # NoAction

undoLastAction ==
  /\ pc = "ready"
  /\ IF lastAction.type = "units"
     THEN /\ units' = lastAction.value
          /\ lastAction' = NoAction
          /\ storage' = saved(storage, units', theme, favorites, recentLocations)
     ELSE UNCHANGED <<units, lastAction, storage>>
  /\ UNCHANGED <<apiKey, viewState, theme, recentLocations, favorites, pc, queued, fetches, nextId, prevSession>>

ToggleTheme ==
  /\ pc = "ready"
  /\ theme' = IF theme = "light" THEN "dark" ELSE "light"
  /\ storage' = saved(storage, units, theme', favorites, recentLocations)
  /\ UNCHANGED <<apiKey, viewState, units, recentLocations, favorites, lastAction, pc, queued, fetches, nextId, prevSession>>

----------------------------------------------------------------------------
\* The texts the user types: blank, a place of the saved lists, a new place.
SearchTexts == {EmptyText, 1, NumPlaces}

Typing == \E text \in SearchTexts : SetLocation(text)
RecentChip == \E loc \in Places : ClickRecent(loc)
FavoriteChip == \E loc \in Places : ClickFavorite(loc)
WeatherSettles == \E f \in fetches, outcome \in Outcomes : WeatherResponse(f, outcome)
ForecastSettles == \E f \in fetches, outcome \in Outcomes : ForecastResponse(f, outcome)

Next ==
  \/ LoadPreferences
  \/ SavePreferences
  \/ Rerender
  \/ Typing
  \/ handleSearch
  \/ RecentChip
  \/ FavoriteChip
  \/ WeatherSettles
  \/ ForecastSettles
  \/ toggleFavorite
  \/ toggleUnits
  \/ undoLastAction
  \/ ToggleTheme

Spec == Init /\ [][Next]_vars

----------------------------------------------------------------------------
\* Steps of a fetch, as seen on a pair of states.

\* A user interaction that calls fetchWeather.
FetchAttempt ==
  \/ (handleSearch /\ location # EmptyText)
  \/ RecentChip
  \/ FavoriteChip

\* fetchWeather call f ends in its catch block.
FetchFails(f) ==
  \/ WeatherResponse(f, "not_ok")
  \/ WeatherResponse(f, "rejected")
  \/ ForecastResponse(f, "not_ok")
  \/ ForecastResponse(f, "rejected")

\* Both requests of fetchWeather call f have returned success.
FetchSucceeds(f) == ForecastResponse(f, "ok")

ErrorMessages == {ServiceUnavailable, LocationNotFound, ForecastUnavailable, Rejected}

----------------------------------------------------------------------------
\* C1: when a search for a place P that is not in Recent Locations succeeds,
\* Recent Locations becomes P followed by the entries it held when the result
\* is applied, cut to MaxRecent entries, without duplicates.
C1_SuccessPrependsToCurrentList ==
  [][\A f \in fetches :
       (FetchSucceeds(f) /\ ~includes(recentLocations, f.searchLocation))
         => /\ recentLocations' = slice0(<<f.searchLocation>> \o recentLocations, MaxRecent)
            /\ NoDup(recentLocations')]_vars

\* C2: after toggleUnits the undo slot holds the unit system in force before
\* the toggle, nothing but a toggle or an undo changes the slot or the unit
\* system while the slot is set, undoLastAction puts the slot's unit back and
\* clears the slot (the undo control disappears), and undoLastAction with an
\* empty slot changes nothing.
C2_UndoRestoresUnitBeforeToggle ==
  /\ [](UndoAvailable => /\ lastAction.type = "units"
                         /\ lastAction.value \in UnitSystems
                         /\ lastAction.value # units)
  /\ [][/\ toggleUnits => /\ lastAction' = [type |-> "units", value |-> units]
                          /\ units' \in UnitSystems \ {units}
        /\ undoLastAction => IF UndoAvailable
                             THEN units' = lastAction.value /\ ~UndoAvailable'
                             ELSE UNCHANGED vars
        /\ (UndoAvailable /\ ~toggleUnits /\ ~undoLastAction)
             => UNCHANGED <<units, lastAction>>]_vars

\* A toggle from imperial has been recorded and can be undone.
C2_Witness ==
  /\ pc = "ready"
  /\ UndoAvailable
  /\ lastAction.value = "imperial"
  /\ units = "metric"

\* C3: without a credential every fetch attempt sets the "service unavailable"
\* message at once, starts no request, never sets the loading flag and leaves
\* weather, forecast and Recent Locations unchanged.
C3_NoCredentialNoRequest ==
  /\ [](~apiKey => ~loading /\ fetches = {} /\ nextId = 1)
  /\ [][(~apiKey /\ FetchAttempt)
          => /\ error' = ServiceUnavailable
             /\ UNCHANGED <<weather, forecast, recentLocations, loading, fetches,
                            nextId, storage>>]_vars

\* A fetch was attempted without a credential.
C3_Witness ==
  /\ ~apiKey
  /\ pc = "ready"
  /\ error = ServiceUnavailable
  /\ recentLocations # <<>>

\* C4: when the previous session wrote unit system U, theme T, favorites F and
\* recents R, the step that completes the mount sequence leaves U, T, F and R
\* in memory and in localStorage.
C4_PreferencesRoundTrip ==
  [][(pc = "save_again" /\ pc' = "ready" /\ prevSession # None)
       => LET p == prevSession[1]
          IN /\ units' = p.units
             /\ theme' = p.theme
             /\ favorites' = p.favorites
             /\ recentLocations' = p.recentLocations
             /\ storage'.weatherUnits = Some(p.units)
             /\ storage'.weatherTheme = Some(p.theme)
             /\ storage'.weatherFavorites = Some(JSONstringify(p.favorites))
             /\ storage'.recentLocations = Some(JSONstringify(p.recentLocations))]_vars

\* The mount sequence has completed with saved preferences that differ from
\* every default (no fetch has been started, so the lists come from storage).
C4_Witness ==
  /\ pc = "ready"
  /\ nextId = 1
  /\ lastAction = NoAction
  /\ units = "imperial"
  /\ theme = "dark"
  /\ favorites = <<1, NumPlaces>>
  /\ recentLocations = <<5, 4, 3, 2, 1>>
  /\ storage = saved(EmptyStorage, "imperial", "dark", <<1, NumPlaces>>, <<5, 4, 3, 2, 1>>)

\* C5: after any successful search for P, P is the first entry of Recent
\* Locations (the list is ordered by latest successful search).
C5_SearchedPlaceIsFirst ==
  [][\A f \in fetches :
       FetchSucceeds(f)
         => /\ recentLocations' # <<>>
            /\ Head(recentLocations') = f.searchLocation]_vars

\* C6: weather, forecast and Recent Locations change only when a fetch
\* succeeds (and, for Recent Locations, when the mount sequence applies the
\* saved list); a fetch that fails (at the first request or, with the current
\* conditions already received, at the second) sets an error message, clears
\* the loading flag and changes nothing else.
C6_FailedFetchKeepsDisplay ==
  [][/\ (weather' # weather \/ forecast' # forecast)
          => \E f \in fetches : FetchSucceeds(f)
     /\ (recentLocations' # recentLocations)
          => (Rerender \/ \E f \in fetches : FetchSucceeds(f))
     /\ \A f \in fetches \ fetches' :
          FetchFails(f)
            => /\ error' \in ErrorMessages
               /\ ~loading'
               /\ UNCHANGED <<location, weather, forecast, units, theme, favorites,
                              recentLocations, lastAction, storage>>]_vars

\* A forecast request has failed while earlier weather was on display.
C6_Witness ==
  /\ error = ForecastUnavailable
  /\ weather # NoWeather
  /\ forecast.id = weather.id
  /\ fetches = {}

\* C7: Favorites never holds a duplicate; a toggle for P changes the membership
\* of P and of no other place, and the toggle for P that follows it gives back
\* the original membership.
C7_FavoriteToggleRoundTrip ==
  /\ [](NoDup(favorites))
  /\ [][toggleFavorite
          => LET P == weather.name
             IN /\ (P \in Range(favorites')) # (P \in Range(favorites))
                /\ Range(favorites') \ {P} = Range(favorites) \ {P}
                /\ Range(toggled(favorites', P)) = Range(favorites)
                /\ NoDup(toggled(favorites', P))]_vars

\* Place 1 was removed from the saved favorites and added again.
C7_Witness ==
  /\ favorites = <<NumPlaces, 1>>
  /\ weather.name = 1

\* C8: two fetches never overlap.
C8_AtMostOneFetchInFlight == Cardinality(fetches) <= 1

\* C9: when a fetch ends, either an error message is set or weather and
\* forecast are those of that fetch, never both and never neither.
C9_FetchEndsInErrorOrData ==
  [][\A f \in fetches :
       (FetchFails(f) \/ FetchSucceeds(f))
         => /\ ~loading'
            /\ (error' # NoError) # (weather'.id = f.id /\ forecast'.id = f.id)]_vars

\* C10: during the mount sequence the four persisted keys keep the values the
\* previous session saved.
C10_MountKeepsSavedPreferences ==
  prevSession # None
    => LET p == prevSession[1]
       IN storage = saved(EmptyStorage, p.units, p.theme, p.favorites, p.recentLocations)

====
